---- MODULE Spec2Model ----
(***************************************************************************)
(* Model of the useDatasetGenerator hook (src/src/hooks/                    *)
(* useDatasetGenerator.ts, lines 1-336): the AppState record kept by        *)
(* useState, the two effects that own timers (alert expiry, progress        *)
(* polling), and the callbacks returned as `actions`.                       *)
(*                                                                         *)
(* Conventions                                                              *)
(*  - `state` is the committed AppState.  Every callback body, timer        *)
(*    callback and promise continuation is one synchronous segment; all     *)
(*    its functional setState updates are batched into one commit, after    *)
(*    which the effects whose dependencies changed are cleaned up and       *)
(*    re-run.  Commit() models that commit together with the effects.       *)
(*  - An `await invoke(...)` splits a callback in two actions: the call     *)
(*    (a request is put in flight) and the continuation (Resolved or        *)
(*    Rejected), which may run any time later.  The continuations of this   *)
(*    hook read nothing captured before the await, so the requests in       *)
(*    flight of one kind are a count.                                       *)
(*  - Time is in seconds.  A timer is the time left until it fires;         *)
(*    Elapse lets one second pass and is disabled while a timer is due.     *)
(*  - lastOp, errorAge, successAge, resetPending, exportTransitions and     *)
(*    lastPayload are history variables: they record what happened and      *)
(*    are read by no action; so are lastReturn, lastPrompt and the fields   *)
(*    cleared and formatAtCall of an export call.                           *)
(*  - ExponentialQualityService (src/src/lib/dataset-formats.ts, lines      *)
(*    238-506) is a library of pure functions; they are operators here,     *)
(*    on numbers in millionths, and SpecQuality applies them to inputs      *)
(*    drawn by its initial condition.                                       *)
(***************************************************************************)
EXTENDS Integers, Sequences, FiniteSets, TLC

VARIABLES
    state,              \* AppState (useState, lines 15-31)
    alertTimer,         \* setTimeout of the alert effect (lines 34-41)
    pollTimer,          \* setInterval of the polling effect (lines 44-72)
    startInFlight,      \* start_generation requests awaiting a response
    progressInFlight,   \* get_progress requests awaiting a response
    discoverInFlight,   \* discover_models requests awaiting a response
    calls,              \* callbacks of `actions` the UI has invoked so far
    lastOp,             \* history: the segment that ran last
    errorAge,           \* history: seconds since the error slot was last raised
    successAge,         \* history: seconds since the success slot was last raised
    resetPending,       \* history: resetGeneration ran and no run was started since
    exportTransitions,  \* history: poll responses that set the step to export
                        \*          since the last accepted startGeneration
    exportCalls,        \* exportDataset calls suspended at an await (lines 137-221)
    filesWritten,       \* files written by writeTextFile: <<path, content>>
    downloads,          \* browser downloads triggered by the fallback (line 201)
    lastPayload,        \* history: the payload export_dataset returned last
    engineCall,         \* ExponentialQualityService: the call and its arguments
    engineOut,          \* ExponentialQualityService: what the call returned
    assistCalls,        \* improve_prompt and generate_use_case_suggestions
                        \*   requests awaiting a response, with their arguments
    lastReturn,         \* history: what improvePrompt or
                        \*   generateUseCaseSuggestions returned last
    lastPrompt          \* history: the argument of the last improvePrompt call

exportVars == <<exportCalls, filesWritten, downloads, lastPayload>>

engineVars == <<engineCall, engineOut>>

assistVars == <<assistCalls, lastReturn, lastPrompt>>

vars == <<state, alertTimer, pollTimer, startInFlight, progressInFlight,
          discoverInFlight, calls, lastOp, errorAge, successAge, resetPending,
          exportTransitions, exportVars, engineVars, assistVars>>

----------------------------------------------------------------------------
(* Bounds of the model *)

MaxInFlight == 2        \* requests that may await a response at one time
MaxCalls == 3           \* callbacks the UI invokes in one behaviour

(* Timer periods of the program *)

AlertTimeout == 5       \* setTimeout(..., 5000)
PollPeriod == 1         \* setInterval(..., 1000)

Null == "null"
NoTimer == -1
NoAge == -1
MaxAge == AlertTimeout + 1      \* the ages saturate here

----------------------------------------------------------------------------
(* Values *)

\* Texts typed as fine_tuning_goal: empty, whitespace only, plain, and
\* padded with whitespace.
Texts == {<<>>, <<" ", " ">>, <<"g">>, <<" ", "g", " ">>}

IsSpace(c) == c = " "

RECURSIVE TrimStart(_)
TrimStart(t) ==
    IF t # <<>> /\ IsSpace(Head(t)) THEN TrimStart(Tail(t)) ELSE t

RECURSIVE TrimEnd(_)
TrimEnd(t) ==
    IF t # <<>> /\ IsSpace(t[Len(t)]) THEN TrimEnd(SubSeq(t, 1, Len(t) - 1)) ELSE t

\* String.prototype.trim
Trim(t) == TrimEnd(TrimStart(t))

Steps == {"models", "configuration", "generating", "export"}

\* GenerationProgress is represented by its status field, the only field
\* the hook reads; state.progress is Null or a status.
Statuses == {"running", "completed", "failed"}

ModelIds == {"m1", "m2"}

\* what discover_models may return (ids of the Model descriptors, in order)
ModelLists == {<<>>, <<"m1">>, <<"m2", "m1">>}

MsgStartInvalid == "Please select a model and provide a fine-tuning goal"
MsgStartFailed == "Failed to start generation"
MsgStarted == "Generation started!"
MsgCompleted == "Dataset generation completed!"
MsgPollFailed == "Error fetching progress."
MsgDiscoverFailed == "Failed to discover models"

InitialState ==
    [ models |-> <<>>,
      selectedModel |-> "",
      isDiscovering |-> FALSE,
      isGenerating |-> FALSE,
      progress |-> Null,
      currentStep |-> "models",
      generationConfig |->
          [ target_entries |-> 2000,
            batch_size |-> 50,
            fine_tuning_goal |-> <<>>,
            domain_context |-> <<>>,
            format |-> "alpaca" ],
      error |-> Null,
      success |-> Null ]

\* The arguments of a call to ExponentialQualityService; fn = "none" when
\* no call is made.
NoCall ==
    [ fn |-> "none", batchSize |-> 0, maxBatches |-> 0, totalEntries |-> 0,
      currentBatch |-> 0, batchSizes |-> <<>>, analyses |-> <<>>,
      targetQuality |-> 0 ]

\* What improvePrompt or generateUseCaseSuggestions returned: null, a text
\* or a list of texts; `of` names the callback, "none" before the first
\* return.
NoReturn == [ of |-> "none", isNull |-> TRUE, text |-> <<>>, suggestions |-> <<>> ]

\* A BatchSizeAnalysis (lines 230-236) with nothing in it.
NoAnalysis ==
    [ batchSize |-> 0,
      totalBatches |-> 0,
      qualityMetrics |->
          [ averageScore |-> 0,
            improvementRate |-> 0,
            feedbackCycles |-> 0,
            compoundingFactor |-> 0,
            projectedFinalQuality |-> 0 ],
      totalQualityValue |-> 0,
      efficiencyScore |-> 0 ]

NoOutput ==
    [ done |-> FALSE, curve |-> <<>>, analyses |-> <<>>,
      recommended |-> NoAnalysis ]

----------------------------------------------------------------------------
(* Effects *)

\* The alert effect, deps [state.error, state.success]: when either value
\* differs from the previous render the pending timeout is cleared and, if a
\* message is shown, a new one is set; otherwise the timer is left running.
AlertEffect(prev, next, timer) ==
    IF prev.error = next.error /\ prev.success = next.success THEN timer
    ELSE IF next.error # Null \/ next.success # Null THEN AlertTimeout
    ELSE NoTimer

\* The polling effect, deps [state.isGenerating].
PollEffect(prev, next, timer) ==
    IF prev.isGenerating = next.isGenerating THEN timer
    ELSE IF next.isGenerating THEN PollPeriod
    ELSE NoTimer

\* history: age of a notification slot after a commit
AgeAfter(slot, raised, age) ==
    IF slot = Null THEN NoAge
    ELSE IF raised THEN 0
    ELSE age

\* Requests of all kinds awaiting a response.
InFlight ==
    startInFlight + progressInFlight + discoverInFlight + Len(exportCalls)
        + Len(assistCalls)

\* A callback of `actions` is invoked by the UI.
Called ==
    /\ calls < MaxCalls
    /\ calls' = calls + 1

\* One render commit: the new state, then the effects.  raisedError and
\* raisedSuccess tell whether the segment wrote a message to the slot.
Commit(next, raisedError, raisedSuccess) ==
    /\ state' = next
    /\ alertTimer' = AlertEffect(state, next, alertTimer)
    /\ pollTimer' = PollEffect(state, next, pollTimer)
    /\ errorAge' = AgeAfter(next.error, raisedError, errorAge)
    /\ successAge' = AgeAfter(next.success, raisedSuccess, successAge)

----------------------------------------------------------------------------

\* The hook after mount: the initial AppState and the discovery started by
\* the mount effect (lines 317-320).
InitHook ==
    /\ state = [InitialState EXCEPT !.isDiscovering = TRUE]
    /\ alertTimer = NoTimer
    /\ pollTimer = NoTimer
    /\ startInFlight = 0
    /\ progressInFlight = 0
    /\ discoverInFlight = 1
    /\ calls = 0
    /\ lastOp = "mount"
    /\ errorAge = NoAge
    /\ successAge = NoAge
    /\ resetPending = FALSE
    /\ exportTransitions = 0
    /\ exportCalls = <<>>
    /\ filesWritten = {}
    /\ downloads = 0
    /\ lastPayload = <<>>
    /\ assistCalls = <<>>
    /\ lastReturn = NoReturn
    /\ lastPrompt = <<>>

Init ==
    /\ InitHook
    /\ engineCall = NoCall
    /\ engineOut = NoOutput

----------------------------------------------------------------------------
(* Time *)

Dec(timer) == IF timer = NoTimer THEN NoTimer ELSE timer - 1

Older(age) == IF age = NoAge THEN NoAge ELSE IF age < MaxAge THEN age + 1 ELSE MaxAge

\* One second passes; no timer that is due is skipped.
Elapse ==
    /\ UNCHANGED <<exportVars, engineVars, assistVars>>
    /\ alertTimer # 0
    /\ pollTimer # 0
    /\ alertTimer' = Dec(alertTimer)
    /\ pollTimer' = Dec(pollTimer)
    /\ errorAge' = Older(errorAge)
    /\ successAge' = Older(successAge)
    /\ lastOp' = "elapse"
    /\ UNCHANGED <<calls, state, startInFlight, progressInFlight, discoverInFlight,
                   resetPending, exportTransitions>>

\* The timeout callback of the alert effect (lines 36-38).
AlertExpire ==
    /\ UNCHANGED <<exportVars, engineVars, assistVars>>
    /\ alertTimer = 0
    /\ Commit([state EXCEPT !.error = Null, !.success = Null], FALSE, FALSE)
    /\ lastOp' = "alertExpire"
    /\ UNCHANGED <<calls, startInFlight, progressInFlight, discoverInFlight,
                   resetPending, exportTransitions>>

----------------------------------------------------------------------------
(* Progress polling (lines 44-72) *)

\* The interval callback up to its await: invoke("get_progress").
PollTick ==
    /\ UNCHANGED <<exportVars, engineVars, assistVars>>
    /\ pollTimer = 0
    /\ InFlight < MaxInFlight
    /\ pollTimer' = PollPeriod
    /\ progressInFlight' = progressInFlight + 1
    /\ lastOp' = "pollTick"
    /\ UNCHANGED <<calls, state, alertTimer, startInFlight, discoverInFlight,
                   errorAge, successAge, resetPending, exportTransitions>>

\* The state after the continuation of a fetch that returned `status`
\* (lines 51-60).
AfterProgress(s, status) ==
    IF status = "completed"
    THEN [s EXCEPT !.progress = status,
                   !.isGenerating = FALSE,
                   !.currentStep = "export",
                   !.success = MsgCompleted]
    ELSE [s EXCEPT !.progress = status]

GetProgressResolved(status) ==
    /\ UNCHANGED <<exportVars, engineVars, assistVars>>
    /\ progressInFlight > 0
    /\ progressInFlight' = progressInFlight - 1
    /\ Commit(AfterProgress(state, status), FALSE, status = "completed")
    /\ exportTransitions' =
           IF status = "completed" THEN exportTransitions + 1 ELSE exportTransitions
    /\ lastOp' = "get_progress.resolved"
    /\ UNCHANGED <<calls, startInFlight, discoverInFlight, resetPending>>

\* Variant of AfterProgressError that also drops the last merged progress.
AfterProgressError_ClearsRun(s) ==
    [s EXCEPT !.error = MsgPollFailed, !.isGenerating = FALSE, !.progress = Null]

\* The catch branch of the interval callback (lines 61-67).
AfterProgressError(s) ==
    [s EXCEPT !.error = MsgPollFailed, !.isGenerating = FALSE]

GetProgressRejected ==
    /\ UNCHANGED <<exportVars, engineVars, assistVars>>
    /\ progressInFlight > 0
    /\ progressInFlight' = progressInFlight - 1
    /\ Commit(AfterProgressError(state), TRUE, FALSE)
    /\ lastOp' = "get_progress.rejected"
    /\ UNCHANGED <<calls, startInFlight, discoverInFlight, resetPending,
                   exportTransitions>>

----------------------------------------------------------------------------
(* startGeneration (lines 100-135) *)

\* Variant of StartGuardViolated that tests the goal without trimming it.
StartGuardViolated_NoTrim(s) ==
    \/ s.selectedModel = ""
    \/ s.generationConfig.fine_tuning_goal = <<>>

\* The guard of lines 101-104.
StartGuardViolated(s) ==
    \/ s.selectedModel = ""
    \/ Trim(s.generationConfig.fine_tuning_goal) = <<>>

\* The setState of lines 112-118.
AfterStartAccepted(s) ==
    [s EXCEPT !.isGenerating = TRUE,
              !.currentStep = "generating",
              !.error = Null,
              !.success = Null]

StartGeneration ==
    /\ UNCHANGED <<exportVars, engineVars, assistVars>>
    /\ Called
    /\ lastOp' = "startGeneration"
    /\ IF StartGuardViolated(state)
       THEN /\ Commit([state EXCEPT !.error = MsgStartInvalid], TRUE, FALSE)
            /\ UNCHANGED <<startInFlight, progressInFlight, discoverInFlight,
                           resetPending, exportTransitions>>
       ELSE /\ InFlight < MaxInFlight
            /\ startInFlight' = startInFlight + 1
            /\ Commit(AfterStartAccepted(state), FALSE, FALSE)
            /\ resetPending' = FALSE
            /\ exportTransitions' = 0
            /\ UNCHANGED <<progressInFlight, discoverInFlight>>

\* Line 127.
StartGenerationResolved ==
    /\ UNCHANGED <<exportVars, engineVars, assistVars>>
    /\ startInFlight > 0
    /\ startInFlight' = startInFlight - 1
    /\ Commit([state EXCEPT !.success = MsgStarted], FALSE, TRUE)
    /\ lastOp' = "start_generation.resolved"
    /\ UNCHANGED <<calls, progressInFlight, discoverInFlight, resetPending,
                   exportTransitions>>

\* The catch branch, lines 128-134.
AfterStartError(s) ==
    [s EXCEPT !.error = MsgStartFailed, !.isGenerating = FALSE]

StartGenerationRejected ==
    /\ UNCHANGED <<exportVars, engineVars, assistVars>>
    /\ startInFlight > 0
    /\ startInFlight' = startInFlight - 1
    /\ Commit(AfterStartError(state), TRUE, FALSE)
    /\ lastOp' = "start_generation.rejected"
    /\ UNCHANGED <<calls, progressInFlight, discoverInFlight, resetPending,
                   exportTransitions>>

----------------------------------------------------------------------------
(* discoverModels (lines 74-98) *)

DiscoverModels ==
    /\ UNCHANGED <<exportVars, engineVars, assistVars>>
    /\ Called
    /\ InFlight < MaxInFlight
    /\ discoverInFlight' = discoverInFlight + 1
    /\ Commit([state EXCEPT !.isDiscovering = TRUE,
                            !.error = Null,
                            !.success = Null], FALSE, FALSE)
    /\ lastOp' = "discoverModels"
    /\ UNCHANGED <<startInFlight, progressInFlight, resetPending,
                   exportTransitions>>

\* Lines 84-90.
AfterDiscover(s, discoveredModels) ==
    [s EXCEPT !.models = discoveredModels,
              !.selectedModel =
                  IF Len(discoveredModels) > 0 THEN discoveredModels[1] ELSE "",
              !.isDiscovering = FALSE]

DiscoverModelsResolved(discoveredModels) ==
    /\ UNCHANGED <<exportVars, engineVars, assistVars>>
    /\ discoverInFlight > 0
    /\ discoverInFlight' = discoverInFlight - 1
    /\ Commit(AfterDiscover(state, discoveredModels), FALSE, FALSE)
    /\ lastOp' = "discover_models.resolved"
    /\ UNCHANGED <<calls, startInFlight, progressInFlight, resetPending,
                   exportTransitions>>

\* Variant of AfterDiscoverError that empties the list and the selection.
AfterDiscoverError_ClearsModels(s) ==
    [s EXCEPT !.error = MsgDiscoverFailed,
              !.isDiscovering = FALSE,
              !.models = <<>>,
              !.selectedModel = ""]

\* The setState of the catch branch, lines 92-96.
AfterDiscoverError(s) ==
    [s EXCEPT !.error = MsgDiscoverFailed, !.isDiscovering = FALSE]

\* Lines 91-97.
DiscoverModelsRejected ==
    /\ UNCHANGED <<exportVars, engineVars, assistVars>>
    /\ discoverInFlight > 0
    /\ discoverInFlight' = discoverInFlight - 1
    /\ Commit(AfterDiscoverError(state), TRUE, FALSE)
    /\ lastOp' = "discover_models.rejected"
    /\ UNCHANGED <<calls, startInFlight, progressInFlight, resetPending,
                   exportTransitions>>

----------------------------------------------------------------------------
(* Synchronous callbacks (lines 223-250) *)

\* updateGenerationConfig({fine_tuning_goal: goal})
UpdateGenerationConfig(goal) ==
    /\ UNCHANGED <<exportVars, engineVars, assistVars>>
    /\ Called
    /\ Commit([state EXCEPT !.generationConfig.fine_tuning_goal = goal],
              FALSE, FALSE)
    /\ lastOp' = "updateGenerationConfig"
    /\ UNCHANGED <<startInFlight, progressInFlight, discoverInFlight,
                   resetPending, exportTransitions>>

SetCurrentStep(step) ==
    /\ UNCHANGED <<exportVars, engineVars, assistVars>>
    /\ Called
    /\ Commit([state EXCEPT !.currentStep = step], FALSE, FALSE)
    /\ lastOp' = "setCurrentStep"
    /\ UNCHANGED <<startInFlight, progressInFlight, discoverInFlight,
                   resetPending, exportTransitions>>

SetSelectedModel(modelId) ==
    /\ UNCHANGED <<exportVars, engineVars, assistVars>>
    /\ Called
    /\ Commit([state EXCEPT !.selectedModel = modelId], FALSE, FALSE)
    /\ lastOp' = "setSelectedModel"
    /\ UNCHANGED <<startInFlight, progressInFlight, discoverInFlight,
                   resetPending, exportTransitions>>

\* Variant of AfterReset that also puts the configuration back to its
\* initial value.
AfterReset_ClearsConfig(s) ==
    [s EXCEPT !.currentStep = "models",
              !.progress = Null,
              !.isGenerating = FALSE,
              !.error = Null,
              !.success = Null,
              !.generationConfig = InitialState.generationConfig]

\* The setState of lines 242-249.
AfterReset(s) ==
    [s EXCEPT !.currentStep = "models",
              !.progress = Null,
              !.isGenerating = FALSE,
              !.error = Null,
              !.success = Null]

ResetGeneration ==
    /\ UNCHANGED <<exportVars, engineVars, assistVars>>
    /\ Called
    /\ Commit(AfterReset(state), FALSE, FALSE)
    /\ resetPending' = TRUE
    /\ lastOp' = "resetGeneration"
    /\ UNCHANGED <<startInFlight, progressInFlight, discoverInFlight,
                   exportTransitions>>

----------------------------------------------------------------------------

Next ==
    \/ Elapse
    \/ AlertExpire
    \/ PollTick
    \/ \E status \in Statuses : GetProgressResolved(status)
    \/ GetProgressRejected
    \/ StartGeneration
    \/ StartGenerationResolved
    \/ StartGenerationRejected
    \/ DiscoverModels
    \/ \E discoveredModels \in ModelLists : DiscoverModelsResolved(discoveredModels)
    \/ DiscoverModelsRejected
    \/ \E goal \in Texts : UpdateGenerationConfig(goal)
    \/ \E step \in Steps : SetCurrentStep(step)
    \/ \E modelId \in ModelIds \cup {""} : SetSelectedModel(modelId)
    \/ ResetGeneration

Spec == Init /\ [][Next]_vars

----------------------------------------------------------------------------
(* exportDataset (src/src/hooks/useDatasetGenerator.ts, lines 137-221)      *)
(* A call is a record of exportCalls from its first line until it returns;  *)
(* phase tells which await it is suspended at.                              *)

MsgExportEmpty == "Dataset is empty or invalid"

MsgExportFailed == "Failed to export dataset"

MsgDownloaded == "Dataset downloaded to your Downloads folder!"

MsgExported(filePath) == "Dataset exported to " \o filePath

\* The payloads export_dataset returns: "", " ", "[]" and one dataset.
Payloads == {<<>>, <<" ">>, <<"[", "]">>, <<"[", "{", "}", "]">>}

\* The paths the save dialog returns.
FilePaths == {"out.jsonl"}

\* Formats the configuration is switched between: the initial one and one
\* other of the ten of DATASET_FORMATS.
Formats == {"alpaca", "conversation"}

\* getFormatInfo(format).fileExtension: ".jsonl" for every entry of
\* DATASET_FORMATS.
FileExtension(format) == ".jsonl"

\* Lines 152-153.
ExtensionOf(format) == IF FileExtension(format) = ".jsonl" THEN "jsonl" ELSE "json"

\* Line 154.
FileName(format) ==
    "fine_tuning_dataset_" \o format \o "." \o ExtensionOf(format)

\* state.generationConfig.format as exportDataset reads it: the callback is
\* memoised with an empty dependency list (line 221), so `state` in its
\* body is the AppState of the first render.
ClosureFormat == InitialState.generationConfig.format

\* The positions a suspended call can have in exportCalls.
CallSlots == 1..MaxInFlight

RemoveAt(list, i) ==
    [j \in 1..(Len(list) - 1) |-> IF j < i THEN list[j] ELSE list[j + 1]]

\* Variant of IsDegenerate without the comparison with "[]".
IsDegenerate_NoBrackets(datasetJson) ==
    \/ Len(datasetJson) = 0
    \/ Trim(datasetJson) = <<>>

\* The test of line 147.
IsDegenerate(datasetJson) ==
    \/ Len(datasetJson) = 0
    \/ Trim(datasetJson) = <<>>
    \/ datasetJson = <<"[", "]">>

StateKept == UNCHANGED <<state, alertTimer, pollTimer, errorAge, successAge>>

HookCallsKept ==
    UNCHANGED <<startInFlight, progressInFlight, discoverInFlight,
                resetPending, exportTransitions, engineVars, assistVars>>

\* updateGenerationConfig({format}), lines 223-231.
UpdateGenerationFormat(format) ==
    /\ Called
    /\ Commit([state EXCEPT !.generationConfig.format = format], FALSE, FALSE)
    /\ lastOp' = "updateGenerationConfig"
    /\ UNCHANGED exportVars
    /\ HookCallsKept

\* Lines 137-144: the notifications are emptied, then export_dataset is
\* invoked.
ExportDataset ==
    /\ Called
    /\ InFlight < MaxInFlight
    /\ exportCalls' =
           Append(exportCalls,
                  [ phase |-> "rpc",
                    datasetJson |-> <<>>,
                    filePath |-> "",
                    fileName |-> "",
                    extension |-> "",
                    formatAtCall |-> state.generationConfig.format,
                    cleared |-> state.error # Null \/ state.success # Null ])
    /\ Commit([state EXCEPT !.error = Null, !.success = Null], FALSE, FALSE)
    /\ lastOp' = "exportDataset"
    /\ UNCHANGED <<filesWritten, downloads, lastPayload>>
    /\ HookCallsKept

\* Lines 144-159 and 215-220: the payload arrives; a degenerate one throws
\* to the outer catch, another one opens the save dialog.
ExportDatasetResolved(i, payload) ==
    /\ i \in 1..Len(exportCalls)
    /\ exportCalls[i].phase = "rpc"
    /\ lastPayload' = payload
    /\ IF IsDegenerate(payload)
       THEN /\ exportCalls' = RemoveAt(exportCalls, i)
            /\ Commit([state EXCEPT !.error = MsgExportEmpty], TRUE, FALSE)
       ELSE /\ exportCalls' =
                   [exportCalls EXCEPT
                       ![i].phase = "dialog",
                       ![i].datasetJson = payload,
                       ![i].fileName = FileName(ClosureFormat),
                       ![i].extension = ExtensionOf(ClosureFormat)]
            /\ StateKept
    /\ lastOp' = "export_dataset.resolved"
    /\ UNCHANGED <<calls, filesWritten, downloads>>
    /\ HookCallsKept

\* Lines 215-220: invoke rejects with a value that is not an Error.
ExportDatasetRejected(i) ==
    /\ i \in 1..Len(exportCalls)
    /\ exportCalls[i].phase = "rpc"
    /\ exportCalls' = RemoveAt(exportCalls, i)
    /\ Commit([state EXCEPT !.error = MsgExportFailed], TRUE, FALSE)
    /\ lastOp' = "export_dataset.rejected"
    /\ UNCHANGED <<calls, filesWritten, downloads, lastPayload>>
    /\ HookCallsKept

\* Lines 159-169: the dialog returns a path and writeTextFile is called.
SaveResolved(i, filePath) ==
    /\ i \in 1..Len(exportCalls)
    /\ exportCalls[i].phase = "dialog"
    /\ exportCalls' = [exportCalls EXCEPT ![i].phase = "write",
                                          ![i].filePath = filePath]
    /\ StateKept
    /\ lastOp' = "save.resolved"
    /\ UNCHANGED <<calls, filesWritten, downloads, lastPayload>>
    /\ HookCallsKept

\* Lines 177-180: the dialog returns null and the call returns.
SaveCancelled(i) ==
    /\ i \in 1..Len(exportCalls)
    /\ exportCalls[i].phase = "dialog"
    /\ exportCalls' = RemoveAt(exportCalls, i)
    /\ StateKept
    /\ lastOp' = "save.cancelled"
    /\ UNCHANGED <<calls, filesWritten, downloads, lastPayload>>
    /\ HookCallsKept

\* Lines 186-214: the browser download and its Success.
FallbackDownload(i) ==
    /\ exportCalls' = RemoveAt(exportCalls, i)
    /\ downloads' = downloads + 1
    /\ Commit([state EXCEPT !.success = MsgDownloaded], FALSE, TRUE)
    /\ UNCHANGED <<calls, filesWritten, lastPayload>>
    /\ HookCallsKept

\* Lines 181-184: save throws; the inner catch falls through to the download.
SaveRejected(i) ==
    /\ i \in 1..Len(exportCalls)
    /\ exportCalls[i].phase = "dialog"
    /\ FallbackDownload(i)
    /\ lastOp' = "save.rejected"

\* Lines 169-176: the file is written and Success names the path.
WriteResolved(i) ==
    /\ i \in 1..Len(exportCalls)
    /\ exportCalls[i].phase = "write"
    /\ exportCalls' = RemoveAt(exportCalls, i)
    /\ filesWritten' = filesWritten \cup
           {<<exportCalls[i].filePath, exportCalls[i].datasetJson>>}
    /\ Commit([state EXCEPT !.success = MsgExported(exportCalls[i].filePath)],
              FALSE, TRUE)
    /\ lastOp' = "writeTextFile.resolved"
    /\ UNCHANGED <<calls, downloads, lastPayload>>
    /\ HookCallsKept

\* Lines 181-184: writeTextFile throws inside the same try; the inner catch
\* falls through to the download.
WriteRejected(i) ==
    /\ i \in 1..Len(exportCalls)
    /\ exportCalls[i].phase = "write"
    /\ FallbackDownload(i)
    /\ lastOp' = "writeTextFile.rejected"

\* The export calls together with the steps of the hook that raise and
\* expire the notifications an export call meets.
NextExport ==
    \/ Elapse
    \/ AlertExpire
    \/ DiscoverModels
    \/ \E discoveredModels \in ModelLists :
           DiscoverModelsResolved(discoveredModels)
    \/ DiscoverModelsRejected
    \/ \E format \in Formats : UpdateGenerationFormat(format)
    \/ ExportDataset
    \/ \E i \in CallSlots, payload \in Payloads :
           ExportDatasetResolved(i, payload)
    \/ \E i \in CallSlots : ExportDatasetRejected(i)
    \/ \E i \in CallSlots, filePath \in FilePaths :
           SaveResolved(i, filePath)
    \/ \E i \in CallSlots : SaveCancelled(i)
    \/ \E i \in CallSlots : SaveRejected(i)
    \/ \E i \in CallSlots : WriteResolved(i)
    \/ \E i \in CallSlots : WriteRejected(i)

SpecExport == Init /\ [][NextExport]_vars

----------------------------------------------------------------------------
(* improvePrompt and generateUseCaseSuggestions (src/src/hooks/             *)
(* useDatasetGenerator.ts, lines 252-315) and the handler of the            *)
(* configuration form that calls the latter (src/unnamed/part_002, lines    *)
(* 278-289).  The arguments of both RPCs are strings: character sequences.  *)

MsgImproveInvalid == "Please provide a fine-tuning goal to improve"

MsgImproved == "Prompt improved successfully!"

MsgImproveFailed == "Failed to improve prompt"

MsgSelectModel == "Please select a model first"

MsgSuggested == "Use case suggestions generated successfully!"

MsgSuggestFailed == "Failed to generate suggestions"

\* What improve_prompt returns.
ImprovedTexts == {<<"G">>}

\* What generate_use_case_suggestions returns.
SuggestionLists == {<<>>, << <<"u">> >>}

\* Texts typed as domain_context.
DomainTexts == {<<>>, <<"d">>}

\* The characters of a format id.
FormatText(format) ==
    IF format = "alpaca" THEN <<"a", "l", "p", "a", "c", "a">>
    ELSE <<"c", "o", "n", "v", "e", "r", "s", "a", "t", "i", "o", "n">>

AssistKept ==
    UNCHANGED <<startInFlight, progressInFlight, discoverInFlight,
                resetPending, exportTransitions, exportVars, engineVars>>

ReturnedNull(callback) == [NoReturn EXCEPT !.of = callback]

\* updateGenerationConfig({domain_context}), lines 223-231.
UpdateGenerationDomain(text) ==
    /\ Called
    /\ Commit([state EXCEPT !.generationConfig.domain_context = text],
              FALSE, FALSE)
    /\ lastOp' = "updateGenerationConfig"
    /\ UNCHANGED assistVars
    /\ AssistKept

\* Lines 252-263: a blank prompt is refused, another one is sent to
\* improve_prompt.
ImprovePrompt(prompt) ==
    /\ Called
    /\ lastPrompt' = prompt
    /\ lastOp' = "improvePrompt"
    /\ IF Trim(prompt) = <<>>
       THEN /\ Commit([state EXCEPT !.error = MsgImproveInvalid], TRUE, FALSE)
            /\ lastReturn' = ReturnedNull("improvePrompt")
            /\ UNCHANGED assistCalls
       ELSE /\ InFlight < MaxInFlight
            /\ assistCalls' =
                   Append(assistCalls,
                          [ rpc |-> "improve_prompt",
                            prompt |-> prompt,
                            domainContext |-> <<>>,
                            format |-> <<>>,
                            modelId |-> "" ])
            /\ StateKept
            /\ UNCHANGED lastReturn
    /\ AssistKept

\* Variant of AfterImproved that also stores the improved text as the goal.
AfterImproved_AppliesPrompt(s, improvedPrompt) ==
    [s EXCEPT !.success = MsgImproved,
              !.generationConfig.fine_tuning_goal = improvedPrompt]

\* The setState of lines 265-268.
AfterImproved(s, improvedPrompt) ==
    [s EXCEPT !.success = MsgImproved]

\* Lines 262-269.
ImprovePromptResolved(i, improvedPrompt) ==
    /\ i \in 1..Len(assistCalls)
    /\ assistCalls[i].rpc = "improve_prompt"
    /\ assistCalls' = RemoveAt(assistCalls, i)
    /\ Commit(AfterImproved(state, improvedPrompt), FALSE, TRUE)
    /\ lastReturn' = [ReturnedNull("improvePrompt") EXCEPT
                          !.isNull = FALSE, !.text = improvedPrompt]
    /\ lastOp' = "improve_prompt.resolved"
    /\ UNCHANGED <<calls, lastPrompt>>
    /\ AssistKept

\* Lines 270-278: invoke rejects with a value that is not an Error.
ImprovePromptRejected(i) ==
    /\ i \in 1..Len(assistCalls)
    /\ assistCalls[i].rpc = "improve_prompt"
    /\ assistCalls' = RemoveAt(assistCalls, i)
    /\ Commit([state EXCEPT !.error = MsgImproveFailed], TRUE, FALSE)
    /\ lastReturn' = ReturnedNull("improvePrompt")
    /\ lastOp' = "improve_prompt.rejected"
    /\ UNCHANGED <<calls, lastPrompt>>
    /\ AssistKept

\* generateUseCaseSuggestions(domainContext, format), lines 281-296; the
\* callback depends on state.selectedModel, so it reads the current one.
GenerateUseCaseSuggestions(domainContext, format) ==
    /\ Called
    /\ IF state.selectedModel = ""
       THEN /\ Commit([state EXCEPT !.error = MsgSelectModel], TRUE, FALSE)
            /\ lastReturn' = ReturnedNull("generateUseCaseSuggestions")
            /\ UNCHANGED assistCalls
       ELSE /\ InFlight < MaxInFlight
            /\ assistCalls' =
                   Append(assistCalls,
                          [ rpc |-> "generate_use_case_suggestions",
                            prompt |-> <<>>,
                            domainContext |-> domainContext,
                            format |-> format,
                            modelId |-> state.selectedModel ])
            /\ StateKept
            /\ UNCHANGED lastReturn
    /\ UNCHANGED lastPrompt
    /\ AssistKept

\* handleGenerateUseCases of the configuration form (part_002, lines
\* 278-289; the form is rendered at the configuration step, App.tsx line
\* 46): onGenerateUseCases(config.format, config.domain_context).
HandleGenerateUseCases ==
    /\ state.currentStep = "configuration"
    /\ GenerateUseCaseSuggestions(FormatText(state.generationConfig.format),
                                  state.generationConfig.domain_context)
    /\ lastOp' = "handleGenerateUseCases"

\* Lines 292-301.
GenerateUseCaseSuggestionsResolved(i, suggestions) ==
    /\ i \in 1..Len(assistCalls)
    /\ assistCalls[i].rpc = "generate_use_case_suggestions"
    /\ assistCalls' = RemoveAt(assistCalls, i)
    /\ Commit([state EXCEPT !.success = MsgSuggested], FALSE, TRUE)
    /\ lastReturn' = [ReturnedNull("generateUseCaseSuggestions") EXCEPT
                          !.isNull = FALSE, !.suggestions = suggestions]
    /\ lastOp' = "generate_use_case_suggestions.resolved"
    /\ UNCHANGED <<calls, lastPrompt>>
    /\ AssistKept

\* Lines 302-312: invoke rejects with a value that is not an Error.
GenerateUseCaseSuggestionsRejected(i) ==
    /\ i \in 1..Len(assistCalls)
    /\ assistCalls[i].rpc = "generate_use_case_suggestions"
    /\ assistCalls' = RemoveAt(assistCalls, i)
    /\ Commit([state EXCEPT !.error = MsgSuggestFailed], TRUE, FALSE)
    /\ lastReturn' = ReturnedNull("generateUseCaseSuggestions")
    /\ lastOp' = "generate_use_case_suggestions.rejected"
    /\ UNCHANGED <<calls, lastPrompt>>
    /\ AssistKept

\* The two assistants together with the steps of the hook that bring the
\* session to the configuration form and fill it in.
NextAssist ==
    \/ Elapse
    \/ AlertExpire
    \/ \E discoveredModels \in ModelLists :
           DiscoverModelsResolved(discoveredModels)
    \/ DiscoverModelsRejected
    \/ \E step \in Steps : SetCurrentStep(step)
    \/ \E goal \in Texts : UpdateGenerationConfig(goal)
    \/ \E format \in Formats : UpdateGenerationFormat(format)
    \/ \E text \in DomainTexts : UpdateGenerationDomain(text)
    \/ \E prompt \in Texts : ImprovePrompt(prompt)
    \/ \E i \in CallSlots, improvedPrompt \in ImprovedTexts :
           ImprovePromptResolved(i, improvedPrompt)
    \/ \E i \in CallSlots : ImprovePromptRejected(i)
    \/ HandleGenerateUseCases
    \/ \E i \in CallSlots, suggestions \in SuggestionLists :
           GenerateUseCaseSuggestionsResolved(i, suggestions)
    \/ \E i \in CallSlots : GenerateUseCaseSuggestionsRejected(i)

SpecAssist == Init /\ [][NextAssist]_vars

----------------------------------------------------------------------------
(* One generation run under fair scheduling: the timers keep running and    *)
(* every request is answered.  resetGeneration is left out.                 *)

\* A get_progress request is answered, with a status or with an error.
ProgressResponse ==
    \/ \E status \in Statuses : GetProgressResolved(status)
    \/ GetProgressRejected

\* The start_generation request is answered.
StartResponse ==
    \/ StartGenerationResolved
    \/ StartGenerationRejected

NextLive ==
    \/ Elapse
    \/ AlertExpire
    \/ PollTick
    \/ \E status \in Statuses : GetProgressResolved(status)
    \/ GetProgressRejected
    \/ StartGeneration
    \/ StartGenerationResolved
    \/ StartGenerationRejected
    \/ \E discoveredModels \in ModelLists :
           DiscoverModelsResolved(discoveredModels)
    \/ DiscoverModelsRejected
    \/ \E goal \in Texts : UpdateGenerationConfig(goal)

\* setTimeout and setInterval callbacks run when due, time passes, and the
\* backend answers every request; which answer it gives is not constrained.
Fairness ==
    /\ WF_vars(Elapse)
    /\ WF_vars(AlertExpire)
    /\ WF_vars(PollTick)
    /\ WF_vars(ProgressResponse)
    /\ WF_vars(StartResponse)

SpecLive == Init /\ [][NextLive]_vars /\ Fairness

----------------------------------------------------------------------------
(* ExponentialQualityService (src/src/lib/dataset-formats.ts, lines 238-506) *)
(* Qualities, rates and scores are in millionths.                           *)

Micro == 1000 * 1000

BaseQuality == 600000           \* baseQuality = 0.6
ImprovementPercent == 15        \* improvementPerCycle = 0.15
CompoundingPercent == 5         \* 0.05 * Math.log(...)
CompoundingCap == 300000        \* 0.3
QualityCap == 950000            \* 0.95
DefaultTargetQuality == 850000  \* targetQuality = 0.85

\* Bounds of the inputs
MaxBatches == 20        \* largest batch number passed to the service
MaxAnalyses == 3        \* longest list passed to the recommendation

Min(a, b) == IF a <= b THEN a ELSE b

Max(a, b) == IF a >= b THEN a ELSE b

\* Math.ceil(a / b), a >= 0, b >= 1
CeilDiv(a, b) == (a + b - 1) \div b

\* ln(n / (n - 1)) = 2 atanh(1 / (2n - 1)), n >= 2, by its series
LnStep(n) ==
    LET k == 2 * n - 1
        t1 == Micro \div k
        p3 == t1 \div (k * k)
        p5 == p3 \div (k * k)
        p7 == p5 \div (k * k)
        p9 == p7 \div (k * k)
    IN  2 * (t1 + p3 \div 3 + p5 \div 5 + p7 \div 7 + p9 \div 9)

\* Math.log(n), n >= 1: ln(2m) = ln(m) + ln(2), ln(n) = ln(n - 1) + ln(n / (n - 1))
RECURSIVE Ln(_)
Ln(n) ==
    IF n <= 1 THEN 0
    ELSE IF n % 2 = 0 THEN Ln(n \div 2) + LnStep(2)
    ELSE Ln(n - 1) + LnStep(n)

\* q * Math.pow(1 + improvementPerCycle, n).  The product stops growing
\* once it has passed 10.0, far above every cap it is compared with.
RECURSIVE Compound(_, _)
Compound(q, n) ==
    IF n = 0 \/ q >= 10 * Micro THEN q
    ELSE Compound((q * (100 + ImprovementPercent)) \div 100, n - 1)

\* Variant of FeedbackCycles that multiplies by the divisor.
FeedbackCycles_Multiplied(batchNumber, batchSize) ==
    (batchNumber * Max(10, batchSize)) \div 10

\* Math.floor(batchNumber / Math.max(1, batchSize / 10)), lines 284-286 and
\* 318-320; Max(10, batchSize) is the divisor in tenths.
FeedbackCycles(batchNumber, batchSize) ==
    (10 * batchNumber) \div Max(10, batchSize)

\* Lines 292-295 and 330-333.
CompoundingFactor(feedbackCycles) ==
    Min((CompoundingPercent * Ln(feedbackCycles + 1)) \div 100, CompoundingCap)

\* Variant of CalculateQualityAtBatch without the 0.95 ceiling.
CalculateQualityAtBatch_NoCeiling(batchNumber, batchSize) ==
    LET feedbackCycles == FeedbackCycles(batchNumber, batchSize)
    IN  Compound(BaseQuality, feedbackCycles) + CompoundingFactor(feedbackCycles)

\* calculateQualityAtBatch, lines 276-308.
CalculateQualityAtBatch(batchNumber, batchSize) ==
    LET feedbackCycles == FeedbackCycles(batchNumber, batchSize)
        exponentialGrowth == Compound(BaseQuality, feedbackCycles)
    IN  Min(exponentialGrowth + CompoundingFactor(feedbackCycles), QualityCap)

\* calculateQualityMetrics, lines 313-342.
CalculateQualityMetrics(currentBatch, batchSize, totalBatches) ==
    LET feedbackCycles == FeedbackCycles(currentBatch, batchSize)
        currentQuality == CalculateQualityAtBatch(currentBatch, batchSize)
    IN  [ averageScore |-> currentQuality,
          improvementRate |->
              IF feedbackCycles > 0
              THEN (currentQuality - BaseQuality) \div feedbackCycles
              ELSE 0,
          feedbackCycles |-> feedbackCycles,
          compoundingFactor |-> CompoundingFactor(feedbackCycles),
          projectedFinalQuality |->
              CalculateQualityAtBatch(totalBatches, batchSize) ]

\* calculateTotalQualityValue, lines 347-359: the sum the loop accumulates
\* over batch = lo .. hi - 1, added up by halves.
RECURSIVE TotalQualityOver(_, _, _)
TotalQualityOver(lo, hi, batchSize) ==
    IF lo >= hi THEN 0
    ELSE IF hi = lo + 1 THEN CalculateQualityAtBatch(lo, batchSize) * batchSize
    ELSE LET mid == (lo + hi) \div 2
         IN  TotalQualityOver(lo, mid, batchSize)
             + TotalQualityOver(mid, hi, batchSize)

CalculateTotalQualityValue(totalBatches, batchSize) ==
    TotalQualityOver(0, totalBatches, batchSize)

\* calculateEfficiencyScore, lines 364-378; 1 / Math.log(batchSize + 1) is
\* taken to three decimals.
CalculateEfficiencyScore(batchSize, metrics) ==
    LET sizeEfficiency == (Micro \div (Ln(batchSize + 1) \div 1000)) * 1000
        feedbackEfficiency == metrics.feedbackCycles * (Micro \div 10)
        qualityEfficiency == metrics.projectedFinalQuality
    IN  (sizeEfficiency + feedbackEfficiency + qualityEfficiency) \div 3

\* analyzeExponentialGrowth, lines 242-271.
AnalyzeExponentialGrowth(totalEntries, currentBatch, batchSizes) ==
    [ i \in 1..Len(batchSizes) |->
        LET batchSize == batchSizes[i]
            totalBatches == CeilDiv(totalEntries, batchSize)
            qualityMetrics ==
                CalculateQualityMetrics(currentBatch, batchSize, totalBatches)
        IN  [ batchSize |-> batchSize,
              totalBatches |-> totalBatches,
              qualityMetrics |-> qualityMetrics,
              totalQualityValue |->
                  CalculateTotalQualityValue(totalBatches, batchSize),
              efficiencyScore |->
                  CalculateEfficiencyScore(batchSize, qualityMetrics) ] ]

\* simulateQualityGrowth, lines 435-456.
SimulateQualityGrowth(batchSize, maxBatches) ==
    [ i \in 1..(maxBatches + 1) |->
        LET batch == i - 1
            quality == CalculateQualityAtBatch(batch, batchSize)
            previousQuality ==
                IF batch = 0 THEN BaseQuality
                ELSE CalculateQualityAtBatch(batch - 1, batchSize)
        IN  [ batch |-> batch,
              quality |-> quality,
              improvement |-> quality - previousQuality ] ]

\* The value the reducers of lines 399-407 compare.
ScoreBy(analysis, by) ==
    IF by = "efficiencyScore" THEN analysis.efficiencyScore
    ELSE analysis.qualityMetrics.projectedFinalQuality

\* Variant of Better in which a later candidate wins a tie.
Better_LastWins(best, current, by) ==
    IF ScoreBy(current, by) >= ScoreBy(best, by) THEN current ELSE best

\* The callback of both reducers: current replaces best only if greater.
Better(best, current, by) ==
    IF ScoreBy(current, by) > ScoreBy(best, by) THEN current ELSE best

\* Array.prototype.reduce without an initial value, on a non-empty list.
RECURSIVE ReduceFrom(_, _, _, _)
ReduceFrom(list, i, best, by) ==
    IF i > Len(list) THEN best
    ELSE ReduceFrom(list, i + 1, Better(best, list[i], by), by)

Reduce(list, by) == ReduceFrom(list, 2, list[1], by)

IsViable(analysis, targetQuality) ==
    analysis.qualityMetrics.projectedFinalQuality >= targetQuality

\* analyses.filter(...), lines 392-395
RECURSIVE ViableFrom(_, _, _)
ViableFrom(analyses, i, targetQuality) ==
    IF i > Len(analyses) THEN <<>>
    ELSE IF IsViable(analyses[i], targetQuality)
    THEN <<analyses[i]>> \o ViableFrom(analyses, i + 1, targetQuality)
    ELSE ViableFrom(analyses, i + 1, targetQuality)

\* generateOptimizationRecommendations, lines 383-407: `recommended`.
GenerateOptimizationRecommendations(analyses, targetQuality) ==
    LET viableOptions == ViableFrom(analyses, 1, targetQuality)
    IN  IF Len(viableOptions) > 0
        THEN Reduce(viableOptions, "efficiencyScore")
        ELSE Reduce(analyses, "projectedFinalQuality")

(* The inputs the service is applied to *)

BatchSizes == {1, 5, 10, 15, 25, 50, 100}

SizePairs == {<<a, b>> : a \in BatchSizes, b \in BatchSizes}

SampleQualities == {800000, 850000, 900000}

SampleScores == {500000, 700000}

\* A BatchSizeAnalysis with the given final quality and efficiency score;
\* batchSize tells the entries of one list apart.
SampleAnalysis(i, quality, score) ==
    [ batchSize |-> 10 * i,
      totalBatches |-> CeilDiv(1000, 10 * i),
      qualityMetrics |->
          [ averageScore |-> BaseQuality,
            improvementRate |-> 0,
            feedbackCycles |-> 0,
            compoundingFactor |-> 0,
            projectedFinalQuality |-> quality ],
      totalQualityValue |-> 0,
      efficiencyScore |-> score ]

RECURSIVE SampleListsOfLen(_)
SampleListsOfLen(n) ==
    IF n = 0 THEN {<<>>}
    ELSE {Append(l, SampleAnalysis(n, q, e)) :
              l \in SampleListsOfLen(n - 1),
              q \in SampleQualities, e \in SampleScores}

SampleLists == UNION {SampleListsOfLen(n) : n \in 1..MaxAnalyses}

EngineCalls ==
    {[NoCall EXCEPT !.fn = "simulateQualityGrowth",
                    !.batchSize = batchSize,
                    !.maxBatches = maxBatches] :
         batchSize \in BatchSizes, maxBatches \in 0..MaxBatches}
    \cup
    {[NoCall EXCEPT !.fn = "analyzeExponentialGrowth",
                    !.totalEntries = 100,
                    !.currentBatch = currentBatch,
                    !.batchSizes = batchSizes] :
         currentBatch \in 0..MaxBatches, batchSizes \in SizePairs}
    \cup
    {[NoCall EXCEPT !.fn = "analyzeExponentialGrowth",
                    !.totalEntries = 1000,
                    !.currentBatch = currentBatch,
                    !.batchSizes = <<10, 50, 100>>] :
         currentBatch \in 0..MaxBatches}
    \cup
    {[NoCall EXCEPT !.fn = "analyzeExponentialGrowth",
                    !.totalEntries = 1000,
                    !.currentBatch = currentBatch,
                    !.batchSizes = <<100, 50, 20, 10>>] :
         currentBatch \in 0..MaxBatches}
    \cup
    {[NoCall EXCEPT !.fn = "generateOptimizationRecommendations",
                    !.analyses = analyses,
                    !.targetQuality = DefaultTargetQuality] :
         analyses \in SampleLists}

HookIdle ==
    UNCHANGED <<state, alertTimer, pollTimer, startInFlight, progressInFlight,
                discoverInFlight, calls, lastOp, errorAge, successAge,
                resetPending, exportTransitions, exportVars, assistVars>>

RunSimulateQualityGrowth ==
    /\ engineCall.fn = "simulateQualityGrowth"
    /\ ~engineOut.done
    /\ engineOut' =
           [NoOutput EXCEPT
               !.done = TRUE,
               !.curve = SimulateQualityGrowth(engineCall.batchSize,
                                               engineCall.maxBatches)]
    /\ UNCHANGED engineCall
    /\ HookIdle

RunAnalyzeExponentialGrowth ==
    /\ engineCall.fn = "analyzeExponentialGrowth"
    /\ ~engineOut.done
    /\ engineOut' =
           [NoOutput EXCEPT
               !.done = TRUE,
               !.analyses = AnalyzeExponentialGrowth(engineCall.totalEntries,
                                                     engineCall.currentBatch,
                                                     engineCall.batchSizes)]
    /\ UNCHANGED engineCall
    /\ HookIdle

RunGenerateOptimizationRecommendations ==
    /\ engineCall.fn = "generateOptimizationRecommendations"
    /\ ~engineOut.done
    /\ engineOut' =
           [NoOutput EXCEPT
               !.done = TRUE,
               !.recommended =
                   GenerateOptimizationRecommendations(engineCall.analyses,
                                                       engineCall.targetQuality)]
    /\ UNCHANGED engineCall
    /\ HookIdle

InitQuality ==
    /\ InitHook
    /\ engineCall \in EngineCalls
    /\ engineOut = NoOutput

NextQuality ==
    \/ RunSimulateQualityGrowth
    \/ RunAnalyzeExponentialGrowth
    \/ RunGenerateOptimizationRecommendations

SpecQuality == InitQuality /\ [][NextQuality]_vars

----------------------------------------------------------------------------
(* Properties *)

PollResponses == {"get_progress.resolved", "get_progress.rejected"}

\* C1: startGeneration called while selectedModel is empty or the trimmed
\* fine_tuning_goal is empty leaves currentStep, isGenerating, progress,
\* models and generationConfig unchanged, raises the Error notification (and
\* nothing in the success slot), and puts no start_generation and no
\* get_progress request in flight.
C1_InvalidStartRejected ==
    [][ ( /\ lastOp' = "startGeneration"
          /\ \/ state.selectedModel = ""
             \/ Trim(state.generationConfig.fine_tuning_goal) = <<>> )
        => ( /\ state'.currentStep = state.currentStep
             /\ state'.isGenerating = state.isGenerating
             /\ state'.progress = state.progress
             /\ state'.models = state.models
             /\ state'.generationConfig = state.generationConfig
             /\ state'.error = MsgStartInvalid
             /\ errorAge' = 0
             /\ state'.success = state.success
             /\ startInFlight' = startInFlight
             /\ progressInFlight' = progressInFlight
             /\ pollTimer' = pollTimer ) ]_vars

\* C1 witness: startGeneration has just been refused for a whitespace-only
\* goal although a model is selected.
C1_Witness ==
    /\ lastOp = "startGeneration"
    /\ state.selectedModel # ""
    /\ state.generationConfig.fine_tuning_goal = <<" ", " ">>
    /\ state.error = MsgStartInvalid
    /\ state.isGenerating = FALSE
    /\ startInFlight = 0

\* C2: when the start_generation request fails, the run is discarded
\* (generating flag false, no progress), the step is back at 'configuration'
\* and an Error notification is raised.
C2_StartFailureRollsBack ==
    [][ lastOp' = "start_generation.rejected"
        => ( /\ state'.isGenerating = FALSE
             /\ state'.progress = Null
             /\ state'.currentStep = "configuration"
             /\ state'.error # Null
             /\ errorAge' = 0 ) ]_vars

\* C3: after an accepted startGeneration the step is set to 'export' by a
\* poll response at most once, and once it has been, polling has stopped.
C3_ExportExactlyOnce ==
    /\ exportTransitions <= 1
    /\ exportTransitions >= 1 => pollTimer = NoTimer

\* C4: a get_progress response that arrives after resetGeneration (and before
\* any new run is started) is discarded: it changes neither progress nor the
\* generating flag nor the step.
C4_LateResponseDiscarded ==
    [][ (resetPending /\ lastOp' \in PollResponses)
        => ( /\ state'.progress = state.progress
             /\ state'.isGenerating = state.isGenerating
             /\ state'.currentStep = state.currentStep ) ]_vars

\* C5: at most one get_progress fetch is in flight at any time.
C5_SingleFetchInFlight == progressInFlight <= 1

\* C6: a poll response with status 'failed' stops polling, raises an Error
\* notification, clears the generating flag and leaves the step unchanged.
C6_FailedStopsPolling ==
    [][ (lastOp' = "get_progress.resolved" /\ state'.progress = "failed")
        => ( /\ pollTimer' = NoTimer
             /\ state'.isGenerating = FALSE
             /\ state'.error # Null
             /\ errorAge' = 0
             /\ state'.currentStep = state.currentStep ) ]_vars

\* C7: when a get_progress fetch rejects, polling stops (the interval is
\* cleared and this segment issues no fetch), the Error notification is
\* raised, the generating flag is cleared, and the step and the last merged
\* progress are left as they were.
C7_PollErrorStopsPolling ==
    [][ lastOp' = "get_progress.rejected"
        => ( /\ pollTimer' = NoTimer
             /\ progressInFlight' < progressInFlight
             /\ state'.isGenerating = FALSE
             /\ state'.error = MsgPollFailed
             /\ errorAge' = 0
             /\ state'.currentStep = state.currentStep
             /\ state'.progress = state.progress ) ]_vars

\* C7 witness: a fetch has just rejected during a run whose progress had
\* already been merged; the progress is still shown on the generating step.
C7_Witness ==
    /\ lastOp = "get_progress.rejected"
    /\ state.progress = "running"
    /\ state.currentStep = "generating"
    /\ state.error = MsgPollFailed
    /\ state.isGenerating = FALSE
    /\ pollTimer = NoTimer

\* C8: startGeneration invoked while the generating flag is set is rejected:
\* it puts no start_generation request in flight and does not change the
\* run state.
C8_NoStartWhileGenerating ==
    [][ (lastOp' = "startGeneration" /\ state.isGenerating)
        => ( /\ startInFlight' = startInFlight
             /\ state'.isGenerating = state.isGenerating
             /\ state'.currentStep = state.currentStep
             /\ state'.progress = state.progress ) ]_vars

\* C9: Error and Success expire independently: when an Error was raised and
\* a Success was raised later while the Error was still visible, the Error
\* is gone 5 seconds after its own raise (raising the Success does not
\* extend the life of the Error), and the Success 5 seconds after its own.
C9_IndependentExpiry ==
    (state.error # Null /\ state.success # Null /\ successAge < errorAge)
        => (errorAge <= AlertTimeout /\ successAge <= AlertTimeout)

\* C10: a notification that expires has been visible for a full 5 seconds
\* since the latest raise of its kind, whatever the text of that raise.
C10_FullLifetimeAfterReraise ==
    [][ lastOp' = "alertExpire"
        => ( /\ state.error # Null => errorAge >= AlertTimeout
             /\ state.success # Null => successAge >= AlertTimeout ) ]_vars

Ids(list) == {list[i] : i \in 1..Len(list)}

\* C11: a successful discoverModels replaces models with the result and
\* auto-selects the first result only if no model was selected: a selection
\* whose id is in the new list is preserved, one whose id is absent is
\* cleared.
C11_DiscoverKeepsSelection ==
    [][ lastOp' = "discover_models.resolved"
        => ( /\ state'.models \in ModelLists
             /\ state'.isDiscovering = FALSE
             /\ state'.selectedModel =
                    IF state.selectedModel = ""
                    THEN (IF Len(state'.models) > 0 THEN state'.models[1] ELSE "")
                    ELSE IF state.selectedModel \in Ids(state'.models)
                    THEN state.selectedModel
                    ELSE "" ) ]_vars

\* C12: when discover_models fails, the Error notification is raised, the
\* busy flag is cleared, and models and selectedModel keep their values.
C12_DiscoverFailureKeepsModels ==
    [][ lastOp' = "discover_models.rejected"
        => ( /\ state'.error = MsgDiscoverFailed
             /\ errorAge' = 0
             /\ state'.isDiscovering = FALSE
             /\ state'.models = state.models
             /\ state'.selectedModel = state.selectedModel ) ]_vars

\* C12 witness: a discovery has just failed while a list discovered earlier
\* and a selection are shown.
C12_Witness ==
    /\ lastOp = "discover_models.rejected"
    /\ state.models = <<"m2", "m1">>
    /\ state.selectedModel = "m1"
    /\ state.error = MsgDiscoverFailed
    /\ state.isDiscovering = FALSE

\* C13: in every reachable state selectedModel is empty or the id of an
\* entry of the current models list.
C13_SelectionRefersToModel ==
    state.selectedModel = "" \/ state.selectedModel \in Ids(state.models)

\* C14: resetGeneration, from any state, sets the step to 'models', clears
\* progress, the generating flag and both notification slots, and leaves
\* models, selectedModel and generationConfig unchanged.
C14_ResetFrame ==
    [][ lastOp' = "resetGeneration"
        => ( /\ state'.currentStep = "models"
             /\ state'.progress = Null
             /\ state'.isGenerating = FALSE
             /\ state'.error = Null
             /\ state'.success = Null
             /\ alertTimer' = NoTimer
             /\ state'.models = state.models
             /\ state'.selectedModel = state.selectedModel
             /\ state'.generationConfig = state.generationConfig ) ]_vars

\* C14 witness: resetGeneration has just run in the middle of a generation
\* (a fetch is still in flight) with a model list, a selection and a goal.
C14_Witness ==
    /\ lastOp = "resetGeneration"
    /\ progressInFlight > 0
    /\ state.models # <<>>
    /\ state.selectedModel # ""
    /\ state.generationConfig.fine_tuning_goal = <<"g">>
    /\ state.currentStep = "models"
    /\ state.isGenerating = FALSE

\* C15: the curve simulateQualityGrowth returns for a fixed batch size never
\* goes down from one batch number to the next, and every quality on it
\* lies between 0.6 and 0.95.
C15_CurveMonotoneAndBounded ==
    (engineCall.fn = "simulateQualityGrowth" /\ engineOut.done) =>
        LET curve == engineOut.curve
        IN  /\ Len(curve) = engineCall.maxBatches + 1
            /\ \A i \in 1..Len(curve) :
                   /\ curve[i].quality >= BaseQuality
                   /\ curve[i].quality <= QualityCap
                   /\ curve[i].improvement >= 0
                   /\ i > 1 => curve[i].quality >= curve[i - 1].quality

\* A simulated curve that starts at 0.6, rises, and ends at the 0.95 ceiling.
C15_Witness ==
    /\ engineCall.fn = "simulateQualityGrowth"
    /\ engineOut.done
    /\ engineCall.batchSize = 50
    /\ engineCall.maxBatches = MaxBatches
    /\ engineOut.curve[1].quality = BaseQuality
    /\ engineOut.curve[6].quality > BaseQuality
    /\ engineOut.curve[6].quality < QualityCap
    /\ engineOut.curve[MaxBatches + 1].quality = QualityCap

\* C16: of two batch sizes analysed at the same batch number, the smaller one
\* has at least as many feedback cycles and at least as high a current
\* quality as the larger one.
C16_SmallerBatchNotWorse ==
    (engineCall.fn = "analyzeExponentialGrowth" /\ engineOut.done) =>
        \A i, j \in 1..Len(engineOut.analyses) :
            LET small == engineOut.analyses[i]
                large == engineOut.analyses[j]
            IN  small.batchSize < large.batchSize =>
                    /\ small.qualityMetrics.feedbackCycles
                           >= large.qualityMetrics.feedbackCycles
                    /\ small.qualityMetrics.averageScore
                           >= large.qualityMetrics.averageScore

\* Sizes 10 and 100 analysed at batch 10: ten cycles against one, and a
\* strictly higher current quality for size 10.
C16_Witness ==
    /\ engineCall.fn = "analyzeExponentialGrowth"
    /\ engineOut.done
    /\ engineCall.batchSizes = <<10, 100>>
    /\ engineCall.currentBatch = 10
    /\ engineOut.analyses[1].qualityMetrics.feedbackCycles = 10
    /\ engineOut.analyses[2].qualityMetrics.feedbackCycles = 1
    /\ engineOut.analyses[1].qualityMetrics.averageScore
           > engineOut.analyses[2].qualityMetrics.averageScore

\* C17: analysing batch sizes 10, 50 and 100 for 1000 entries at batch 0
\* gives zero feedback cycles for each size and a projected final quality
\* that is strictly higher for 10 than for 50 and for 50 than for 100.
C17_StrictOrderAtBatchZero ==
    ( /\ engineCall.fn = "analyzeExponentialGrowth"
      /\ engineOut.done
      /\ engineCall.totalEntries = 1000
      /\ engineCall.currentBatch = 0
      /\ engineCall.batchSizes = <<10, 50, 100>> ) =>
        LET a == engineOut.analyses
        IN  /\ \A i \in 1..3 : a[i].qualityMetrics.feedbackCycles = 0
            /\ a[1].qualityMetrics.projectedFinalQuality
                   > a[2].qualityMetrics.projectedFinalQuality
            /\ a[2].qualityMetrics.projectedFinalQuality
                   > a[3].qualityMetrics.projectedFinalQuality

\* The positions of a list whose analysis reaches the target quality.
ViablePositions(analyses, targetQuality) ==
    {i \in 1..Len(analyses) : IsViable(analyses[i], targetQuality)}

\* Position i holds the first greatest score among the positions in among.
FirstGreatest(analyses, among, i, by) ==
    /\ i \in among
    /\ \A j \in among : ScoreBy(analyses[j], by) <= ScoreBy(analyses[i], by)
    /\ \A j \in among : j < i => ScoreBy(analyses[j], by) < ScoreBy(analyses[i], by)

C19_CancelIsNoOp ==
    [][ lastOp' = "save.cancelled"
        => /\ state' = state
           /\ filesWritten' = filesWritten
           /\ downloads' = downloads
           /\ \E i \in 1..Len(exportCalls) :
                  /\ exportCalls[i].phase = "dialog"
                  /\ exportCalls' = RemoveAt(exportCalls, i)
                  /\ ~exportCalls[i].cleared ]_vars

\* C20: when export_dataset returns an empty, whitespace-only or "[]"
\* payload, the call raises the Error notification and ends there: no
\* Success, no save dialog, no file and no download.
C20_DegeneratePayloadRejected ==
    [][ ( /\ lastOp' = "export_dataset.resolved"
          /\ \/ Len(lastPayload') = 0
             \/ \A k \in 1..Len(lastPayload') : IsSpace(lastPayload'[k])
             \/ lastPayload' = <<"[", "]">> )
        => /\ state'.error = MsgExportEmpty
           /\ errorAge' = 0
           /\ state'.success = state.success
           /\ \E i \in 1..Len(exportCalls) :
                  /\ exportCalls[i].phase = "rpc"
                  /\ exportCalls' = RemoveAt(exportCalls, i)
           /\ filesWritten' = filesWritten
           /\ downloads' = downloads ]_vars

\* The payload "[]" has just been refused.
C20_Witness ==
    /\ lastOp = "export_dataset.resolved"
    /\ lastPayload = <<"[", "]">>
    /\ state.error = MsgExportEmpty
    /\ state.success = Null
    /\ exportCalls = <<>>
    /\ filesWritten = {}
    /\ downloads = 0

\* C21: an exportDataset call with a valid payload whose dialog is not
\* cancelled ends with one notification: Success naming the destination
\* when the file was written, Success when the download was taken because
\* the save dialog itself was unavailable, and Error otherwise; a failed
\* write to the chosen path raises Error and no Success.
C21_ExportEndsWithOneNotification ==
    [][ /\ lastOp' = "writeTextFile.resolved"
            => /\ \E filePath \in FilePaths : state'.success = MsgExported(filePath)
               /\ successAge' = 0
               /\ state'.error = state.error
        /\ lastOp' = "save.rejected"
            => /\ state'.success = MsgDownloaded
               /\ successAge' = 0
               /\ state'.error = state.error
        /\ lastOp' = "writeTextFile.rejected"
            => /\ state'.error # Null
               /\ errorAge' = 0
               /\ state'.success = state.success
               /\ downloads' = downloads ]_vars

\* C23: the poller is armed only after start_generation has returned: the
\* accepted startGeneration does not start the interval, and no get_progress
\* fetch is issued while a start_generation request awaits its response.
C23_PollerArmedAfterStart ==
    [][ /\ (lastOp' = "startGeneration" /\ startInFlight' > startInFlight
               /\ pollTimer = NoTimer)
            => pollTimer' = NoTimer
        /\ lastOp' = "pollTick" => startInFlight = 0 ]_vars

\* C24: setCurrentStep to a step other than 'generating' while a generation
\* is active cancels the poller: the interval is cleared and the generating
\* flag is false afterwards.
C24_StepAwayCancelsPoller ==
    [][ ( /\ lastOp' = "setCurrentStep"
          /\ state.isGenerating
          /\ state'.currentStep # "generating" )
        => /\ pollTimer' = NoTimer
           /\ ~state'.isGenerating ]_vars

\* C25: a poll response changes the step only from 'generating' to 'export'
\* and only when its status is 'completed'; a fetch error changes no step.
C25_ExportOnlyFromGenerating ==
    [][ /\ lastOp' = "get_progress.resolved"
            => \/ state'.currentStep = state.currentStep
               \/ /\ state.currentStep = "generating"
                  /\ state'.currentStep = "export"
                  /\ state'.progress = "completed"
        /\ lastOp' = "get_progress.rejected"
            => state'.currentStep = state.currentStep ]_vars

\* C29: isDiscovering is true whenever a discover_models request is still
\* awaiting its response.
C29_BusyWhileDiscovering ==
    discoverInFlight > 0 => state.isDiscovering

\* The example of getExponentialExplanation (lines 495-500), for 1000
\* entries: batch size, number of batches, feedback cycles.
DocumentedExample ==
    << [ batchSize |-> 100, totalBatches |-> 10, feedbackCycles |-> 1 ],
       [ batchSize |-> 50, totalBatches |-> 20, feedbackCycles |-> 2 ],
       [ batchSize |-> 20, totalBatches |-> 50, feedbackCycles |-> 5 ],
       [ batchSize |-> 10, totalBatches |-> 100, feedbackCycles |-> 10 ] >>

\* C27: for 1000 entries and the batch sizes 100, 50, 20 and 10 the
\* analysis has the number of batches of the documented example, and the
\* feedback cycles of the formula at that number of batches are the
\* documented ones (1, 2, 5 and 10).
C27_DocumentedExampleHolds ==
    ( /\ engineCall.fn = "analyzeExponentialGrowth"
      /\ engineOut.done
      /\ engineCall.totalEntries = 1000
      /\ engineCall.batchSizes = <<100, 50, 20, 10>> ) =>
        \A i \in 1..Len(DocumentedExample) :
            LET analysis == engineOut.analyses[i]
                example == DocumentedExample[i]
            IN  /\ analysis.batchSize = example.batchSize
                /\ analysis.totalBatches = example.totalBatches
                /\ FeedbackCycles(analysis.totalBatches, analysis.batchSize)
                       = example.feedbackCycles
                /\ engineCall.currentBatch = analysis.totalBatches
                       => analysis.qualityMetrics.feedbackCycles
                              = example.feedbackCycles

\* C30: the file name and the extension filter an export call passes to the
\* save dialog are those of the format generationConfig held when
\* exportDataset was called.
C30_SuggestedNameFollowsFormat ==
    [][ lastOp' = "export_dataset.resolved"
        => \A i \in 1..Len(exportCalls) :
               ( /\ Len(exportCalls') = Len(exportCalls)
                 /\ exportCalls[i].phase = "rpc"
                 /\ exportCalls'[i].phase = "dialog" )
               => /\ exportCalls'[i].fileName
                         = FileName(exportCalls[i].formatAtCall)
                  /\ exportCalls'[i].extension
                         = ExtensionOf(exportCalls[i].formatAtCall) ]_vars

\* A text that is empty or has white space only.
IsBlank(text) == \A k \in 1..Len(text) : IsSpace(text[k])

\* C22: improvePrompt never changes generationConfig.  With a blank prompt
\* it raises an Error, sends no request and returns null; otherwise it sends
\* the prompt to improve_prompt, and returns the improved text with Success
\* raised when the RPC answers, or null with Error raised when it fails.
C22_ImprovePromptKeepsConfig ==
    [][ /\ lastOp' = "improvePrompt"
            => /\ state'.generationConfig = state.generationConfig
               /\ IF IsBlank(lastPrompt')
                  THEN /\ state'.error = MsgImproveInvalid
                       /\ errorAge' = 0
                       /\ state'.success = state.success
                       /\ assistCalls' = assistCalls
                       /\ lastReturn'.of = "improvePrompt"
                       /\ lastReturn'.isNull
                  ELSE /\ Len(assistCalls') = Len(assistCalls) + 1
                       /\ assistCalls'[Len(assistCalls')].rpc = "improve_prompt"
                       /\ assistCalls'[Len(assistCalls')].prompt = lastPrompt'
                       /\ state' = state
        /\ lastOp' = "improve_prompt.resolved"
            => /\ state'.generationConfig = state.generationConfig
               /\ state'.success = MsgImproved
               /\ successAge' = 0
               /\ state'.error = state.error
               /\ lastReturn'.of = "improvePrompt"
               /\ ~lastReturn'.isNull
               /\ lastReturn'.text \in ImprovedTexts
               /\ Len(assistCalls') = Len(assistCalls) - 1
        /\ lastOp' = "improve_prompt.rejected"
            => /\ state'.generationConfig = state.generationConfig
               /\ state'.error = MsgImproveFailed
               /\ errorAge' = 0
               /\ state'.success = state.success
               /\ lastReturn'.of = "improvePrompt"
               /\ lastReturn'.isNull
               /\ Len(assistCalls') = Len(assistCalls) - 1 ]_vars

\* improve_prompt has just answered a padded prompt with another text, and
\* the goal typed before is still the configured one.
C22_Witness ==
    /\ lastOp = "improve_prompt.resolved"
    /\ lastPrompt = <<" ", "g", " ">>
    /\ ~lastReturn.isNull
    /\ lastReturn.text = <<"G">>
    /\ state.success = MsgImproved
    /\ state.generationConfig.fine_tuning_goal = <<"g">>

\* C28: a use-case-suggestion request made from the configuration form
\* reaches generate_use_case_suggestions with domainContext the config's
\* domain_context, format the config's format and modelId the selected
\* model; with no model selected it raises an Error and sends no request.
C28_SuggestionArguments ==
    [][ lastOp' = "handleGenerateUseCases"
        => IF state.selectedModel = ""
           THEN /\ state'.error = MsgSelectModel
                /\ assistCalls' = assistCalls
           ELSE /\ Len(assistCalls') = Len(assistCalls) + 1
                /\ LET request == assistCalls'[Len(assistCalls')]
                   IN  /\ request.rpc = "generate_use_case_suggestions"
                       /\ request.domainContext
                              = state.generationConfig.domain_context
                       /\ request.format
                              = FormatText(state.generationConfig.format)
                       /\ request.modelId = state.selectedModel ]_vars

\* A poll has reported a terminal status or failed.
TerminalObserved ==
    \/ lastOp = "get_progress.resolved" /\ state.progress \in {"completed", "failed"}
    \/ lastOp = "get_progress.rejected"

\* C26: under fair scheduling, once a poll has reported 'completed' or
\* 'failed' or has failed itself, polling eventually stops; and once it has
\* reported 'completed', the session eventually is at the export step with
\* the generating flag cleared and the progress still populated.
C26_PollingEventuallyStops ==
    /\ TerminalObserved ~> (pollTimer = NoTimer /\ ~state.isGenerating)
    /\ (lastOp = "get_progress.resolved" /\ state.progress = "completed")
           ~> ( /\ state.currentStep = "export"
                /\ ~state.isGenerating
                /\ state.progress # Null )

====
